---- MODULE Spec2Model ----
(***************************************************************************)
(* Model of the ticket application in src/script.js: the slot builder,     *)
(* the identifier generator, the ticket registry with creation, removal,   *)
(* CSV export and import, the settings store and the reminder timers.      *)
(*                                                                         *)
(* Text is a sequence of characters.  A character is a TLA+ string; a run  *)
(* of characters that no modelled operation looks into (a date, a header   *)
(* name, the seconds of a timestamp) is written as one such string.  The   *)
(* characters the code distinguishes, the double quote, the comma, the     *)
(* line feed and the blank, are always characters of their own.            *)
(* Instants are minutes counted from 00:00 of the first schedule date.     *)
(***************************************************************************)
EXTENDS Integers, Sequences, FiniteSets, TLC

\* ---------------------------------------------------------------- bounds
\* The registry holds at most this many tickets (createTicket stops there,
\* imported files have at most this many data rows).
MaxTickets == 2

\* ------------------------------------------------------------ characters
Quote == "\""
Comma == ","
LF == "\n"
Blank == " "

\* randTicketId: the two alphabets
letters == <<"A", "B", "C", "D", "E", "F", "G", "H", "I", "J", "K", "L", "M",
             "N", "O", "P", "Q", "R", "S", "T", "U", "V", "W", "X", "Y", "Z">>
digits == <<"0", "1", "2", "3", "4", "5", "6", "7", "8", "9">>
\* randTicketId: the number of letters and of digits of an identifier
IdLetters == 5
IdDigits == 3

Range(s) == {s[i] : i \in DOMAIN s}

\* String.prototype.trim on the name and contact fields
RECURSIVE trimStart(_)
trimStart(s) == IF s # <<>> /\ Head(s) = Blank THEN trimStart(Tail(s)) ELSE s
RECURSIVE trimEnd(_)
trimEnd(s) ==
  IF s # <<>> /\ s[Len(s)] = Blank THEN trimEnd(SubSeq(s, 1, Len(s) - 1)) ELSE s
trim(s) == trimEnd(trimStart(s))

\* Array.prototype.join
RECURSIVE join(_, _)
join(parts, sep) ==
  IF parts = <<>> THEN <<>>
  ELSE IF Len(parts) = 1 THEN parts[1]
  ELSE parts[1] \o sep \o join(Tail(parts), sep)

\* String.prototype.split on a one-character separator: the pieces between
\* the separators, empty pieces included.  The k-th piece lies between the
\* (k-1)-th and the k-th separator.
split(s, sep) ==
  LET at == {i \in DOMAIN s : s[i] = sep} \cup {0, Len(s) + 1}
      nth(k) == CHOOSE p \in at : Cardinality({q \in at : q < p}) = k
  IN  [k \in 1..(Cardinality(at) - 1) |-> SubSeq(s, nth(k - 1) + 1, nth(k) - 1)]

\* Array.prototype.filter(Boolean) on strings: the empty ones go
filterBoolean(parts) == SelectSeq(parts, LAMBDA p : p # <<>>)

\* ------------------------------------------------------------------ time
MinutesPerDay == 1440
Dates == <<"2025-10-31", "2025-11-01">>
\* dayjs(`${date} ${hh:mm}`): the instant of a time of day on a schedule date
DayStart(date) == (CHOOSE i \in DOMAIN Dates : Dates[i] = date) * MinutesPerDay - MinutesPerDay
Digit(n) == digits[n + 1]
\* dayjs(t).format("HH:mm")
formatHHmm(t) ==
  LET m == t % MinutesPerDay
  IN  <<Digit((m \div 60) \div 10), Digit((m \div 60) % 10), ":",
        Digit((m % 60) \div 10), Digit((m % 60) % 10)>>
\* Date.prototype.toISOString, to the minute
toISOString(t) ==
  <<Dates[(t \div MinutesPerDay) + 1], "T">> \o formatHHmm(t) \o <<":00.000Z">>
\* String(idx).padStart(3, "0")
padStart3(idx) ==
  IF idx < 1000
  THEN <<Digit(idx \div 100), Digit((idx \div 10) % 10), Digit(idx % 10)>>
  ELSE <<Digit(idx \div 1000)>> \o
       <<Digit((idx \div 100) % 10), Digit((idx \div 10) % 10), Digit(idx % 10)>>

\* ----------------------------------------------------------- buildSlots
\* The while loop of buildSlots: t is the cursor, idx the ordinal.
RECURSIVE buildSlotsLoop(_, _, _, _, _)
buildSlotsLoop(date, t, end, slotMinutes, idx) ==
  IF t < end
  THEN LET e == t + slotMinutes
       IN  <<[id |-> <<date, "-">> \o padStart3(idx),
              label |-> formatHHmm(t) \o <<"-">> \o formatHHmm(e),
              startISO |-> t,
              endISO |-> e]>>
           \o buildSlotsLoop(date, e, end, slotMinutes, idx + 1)
  ELSE <<>>
buildSlots(s) ==
  buildSlotsLoop(s.schedule.date,
                 DayStart(s.schedule.date) + s.schedule.start,
                 DayStart(s.schedule.date) + s.schedule.end,
                 s.slotMinutes, 0)

\* slots.find((s) => s.id === slotId): the index of the first such slot, 0 if none
findSlot(sl, slotId) ==
  IF \E i \in DOMAIN sl : sl[i].id = slotId
  THEN CHOOSE i \in DOMAIN sl : sl[i].id = slotId /\ \A j \in 1..(i - 1) : sl[j].id # slotId
  ELSE 0

\* capacityForSlot
capacityForSlot(tk, slotId) == Len(SelectSeq(tk, LAMBDA t : t.slotId = slotId))

\* ----------------------------------------------------------------- toCSV
headers == <<"id", "name", "contact", "slot_label", "slot_id", "created_at">>
RECURSIVE doubleQuotes(_)
doubleQuotes(v) ==
  IF v = <<>> THEN <<>>
  ELSE IF Head(v) = Quote THEN <<Quote, Quote>> \o doubleQuotes(Tail(v))
  ELSE <<Head(v)>> \o doubleQuotes(Tail(v))
\* (a variant that wraps without doubling the quotes)
escNoDoubling(v) == <<Quote>> \o v \o <<Quote>>
\* esc: the value wrapped in quotes, its quotes doubled
esc(v) == <<Quote>> \o doubleQuotes(v) \o <<Quote>>
toCSV(rows) ==
  IF rows = <<>> THEN <<>>
  ELSE join(<<join([i \in DOMAIN headers |-> <<headers[i]>>], <<Comma>>)>> \o
            [r \in DOMAIN rows |->
               join([i \in DOMAIN headers |-> esc(rows[r][headers[i]])], <<Comma>>)],
            <<LF>>)
\* exportCSV: the rows it hands to toCSV
exportRows(tk) ==
  [i \in DOMAIN tk |->
     [id |-> tk[i].id,
      name |-> tk[i].name,
      contact |-> tk[i].contact,
      slot_label |-> formatHHmm(tk[i].slotStartISO) \o <<"-">> \o formatHHmm(tk[i].slotEndISO),
      slot_id |-> tk[i].slotId,
      created_at |-> tk[i].createdAtISO]]
exportCSV(tk) == toCSV(exportRows(tk))

\* --------------------------------------------------------- importCSVText
\* text.split(/\r?\n/).filter(Boolean)
importLines(text) == filterBoolean(split(text, LF))

\* s.replace(/^\"|\"$/g, ""): one quote off the front, one off the back
stripQuotes(s) ==
  LET a == IF s # <<>> /\ Head(s) = Quote THEN Tail(s) ELSE s
  IN  IF a # <<>> /\ a[Len(a)] = Quote THEN SubSeq(a, 1, Len(a) - 1) ELSE a

\* s.replace(/\"\"/g, '"'): every pair of quotes, left to right, becomes one
RECURSIVE undoubleQuotes(_)
undoubleQuotes(s) ==
  IF Len(s) >= 2 /\ s[1] = Quote /\ s[2] = Quote
  THEN <<Quote>> \o undoubleQuotes(SubSeq(s, 3, Len(s)))
  ELSE IF s = <<>> THEN <<>>
  ELSE <<Head(s)>> \o undoubleQuotes(Tail(s))

\* lines[0].split(",").map((s) => s.replace(/^\"|\"$/g, ""))
importHeader(line) ==
  LET cells == split(line, Comma) IN [i \in DOMAIN cells |-> stripQuotes(cells[i])]

\* header.indexOf(h), counted from 1; 0 when h is no header cell (the code's -1)
idx(header, h) ==
  IF \E i \in DOMAIN header : header[i] = <<h>>
  THEN CHOOSE i \in DOMAIN header :
         header[i] = <<h>> /\ \A j \in 1..(i - 1) : header[j] # <<h>>
  ELSE 0

\* The regular expression /\"([^\"]*(?:\"\"[^\"]*)*)\"|([^,]+)/g of importCSVText.
\* [^\"]* from position i: the first position that holds a quote, or Len + 1
skipNonQuote(s, i) ==
  CHOOSE j \in i..(Len(s) + 1) :
    /\ j = Len(s) + 1 \/ s[j] = Quote
    /\ \A k \in i..(j - 1) : s[k] # Quote
\* (?:\"\"[^\"]*)*\" from position j, greedy: the position of the closing quote.
\* When the greedy run of pairs finds no closing quote the match backtracks
\* to the last pair and closes on its first quote (last; 0: no match).
RECURSIVE quotedEnd(_, _, _)
quotedEnd(s, j, last) ==
  IF j + 1 <= Len(s) /\ s[j] = Quote /\ s[j + 1] = Quote
  THEN quotedEnd(s, skipNonQuote(s, j + 2), j)
  ELSE IF j <= Len(s) /\ s[j] = Quote THEN j
  ELSE last
\* [^,]+ from position i: the first position that holds a comma, or Len + 1
skipNonComma(s, i) ==
  CHOOSE j \in i..(Len(s) + 1) :
    /\ j = Len(s) + 1 \/ s[j] = Comma
    /\ \A k \in i..(j - 1) : s[k] # Comma
\* String.prototype.match with the g flag: every match, left to right
RECURSIVE matchAll(_, _)
matchAll(s, i) ==
  IF i > Len(s) THEN <<>>
  ELSE LET e == IF s[i] = Quote THEN quotedEnd(s, skipNonQuote(s, i + 1), 0) ELSE 0
       IN  IF e > 0 THEN <<SubSeq(s, i, e)>> \o matchAll(s, e + 1)
           ELSE IF s[i] # Comma
           THEN <<SubSeq(s, i, skipNonComma(s, i) - 1)>> \o matchAll(s, skipNonComma(s, i))
           ELSE matchAll(s, i + 1)
\* lines[i].match(...)?.map(strip the quotes, undouble) || []
rowCols(line) ==
  LET m == matchAll(line, 1) IN [k \in DOMAIN m |-> undoubleQuotes(stripQuotes(m[k]))]
\* cols[k] || "": a missing column (undefined) and an empty one are both falsy
col(cols, k) == IF k \in DOMAIN cols THEN cols[k] ELSE <<>>

\* What importCSVText reads off the text alone: whether it has no line, the
\* header cells and the columns of every data row
parseCSV(text) ==
  LET lines == importLines(text)
  IN  IF lines = <<>> THEN [empty |-> TRUE, header |-> <<>>, rows |-> <<>>]
      ELSE [empty |-> FALSE,
            header |-> importHeader(lines[1]),
            rows |-> [i \in 1..(Len(lines) - 1) |-> rowCols(lines[i + 1])]]

\* The ticket importCSVText pushes for one data row.  sl is the current slot
\* list (not empty), genId the identifier randTicketId returns when the id
\* column is empty, t the instant of the import.
importRow(cols, header, sl, genId, t) ==
  LET rowSlotId == col(cols, idx(header, "slot_id"))
      found == findSlot(sl, rowSlotId)
      slot == IF found # 0 THEN sl[found] ELSE sl[1]
  IN  [id |-> IF col(cols, idx(header, "id")) # <<>>
              THEN col(cols, idx(header, "id")) ELSE genId,
       name |-> col(cols, idx(header, "name")),
       contact |-> col(cols, idx(header, "contact")),
       slotId |-> slot.id,
       slotStartISO |-> slot.startISO,
       slotEndISO |-> slot.endISO,
       createdAtISO |-> IF col(cols, idx(header, "created_at")) # <<>>
                        THEN col(cols, idx(header, "created_at")) ELSE toISOString(t),
       notified |-> FALSE]
\* The list importCSVText hands to setTickets
importOut(p, sl, gen, t) ==
  [i \in DOMAIN p.rows |-> importRow(p.rows[i], p.header, sl, gen[i], t)]
\* Whether data row i has an empty id column, so that importCSVText calls
\* randTicketId for it
rowNeedsId(p, i) == col(p.rows[i], idx(p.header, "id")) = <<>>

\* ---------------------------------------------------------- randTicketId
\* Math.floor(Math.random() * n) for the eight characters of one candidate.
\* The model's random source varies the last letter and the last digit.
RandomDraws ==
  {<<0, 0, 0, 0, 0, 0, 0, 0>>, <<0, 0, 0, 0, 1, 0, 0, 0>>, <<0, 0, 0, 0, 0, 0, 0, 1>>}
\* The candidate the do-body builds from eight draws
makeId(r) ==
  [i \in 1..IdLetters |-> letters[r[i] + 1]] \o
  [i \in 1..IdDigits |-> digits[r[IdLetters + i] + 1]]
Candidates == {makeId(r) : r \in RandomDraws}
\* (a variant that accepts every candidate)
whileConditionNever(cand, existingSet) == FALSE
\* while (existing.has(id)): the candidate is rejected and drawn again
whileCondition(cand, existingSet) == cand \in existingSet
\* The identifiers the do-while loop can return for a used-set
randTicketId(existingSet) == {c \in Candidates : ~whileCondition(c, existingSet)}

\* ------------------------------------------------------------- the state
VARIABLES
  settings,   \* the settings record (usePersistentState)
  slots,      \* useMemo(() => buildSlots(settings))
  tickets,    \* the ticket registry (usePersistentState), a sequence
  slotId,     \* the selected slot of the creation form
  now,        \* the wall clock
  timers,     \* the pending window.setTimeout callbacks of scheduleReminder
  alert,      \* the dialog the last handler showed ("none": no dialog)
  existing,   \* randTicketId: its argument
  id,         \* randTicketId: its loop variable
  idPc,       \* randTicketId: where the loop stands
  stored,     \* the ticket list in localStorage, as saveJSON wrote it last
  other       \* a second tab of the same browser: its own state

vars == <<settings, slots, tickets, slotId, now, timers, alert, existing, id, idPc,
          stored, other>>
tabVars == <<stored, other>>
appVars == <<settings, slots, tickets, slotId, now, timers, alert>>
idVars == <<existing, id, idPc>>

\* Settings as persisted by an earlier session: the defaults of the code with a
\* short schedule and a small capacity.
InitSettings ==
  [slotMinutes |-> 10, slotCapacity |-> 1, reminderMinutesBefore |-> 5,
   schedule |-> [date |-> Dates[1], start |-> 540, end |-> 560]]

\* The instants the clock shows
NowValues == {530, 552}

\* useState(slots[0]?.id || "") and the effect that follows a render:
\* if (!slots.find((s) => s.id === slotId)) setSlotId(slots[0]?.id || "")
reselect(sl, sid) ==
  IF findSlot(sl, sid) = 0 THEN (IF sl # <<>> THEN sl[1].id ELSE <<>>) ELSE sid

\* The second tab before its page is loaded
NotLoaded == [loaded |-> FALSE, tickets |-> <<>>, slotId |-> <<>>, alert |-> "none"]
Init ==
  /\ stored = <<>>
  /\ other = NotLoaded
  /\ settings = InitSettings
  /\ slots = buildSlots(InitSettings)
  /\ tickets = <<>>
  /\ slotId = reselect(buildSlots(InitSettings), <<>>)
  /\ now = 530
  /\ timers = {}
  /\ alert = "none"
  /\ existing = {}
  /\ id = <<>>
  /\ idPc = "idle"

\* ------------------------------------------------------------- settings
\* Number(e.target.value): a number or NaN
NaN == [nan |-> TRUE, val |-> 0]
Num(v) == [nan |-> FALSE, val |-> v]
\* Number(v) || d
orElse(n, d) == IF n.nan \/ n.val = 0 THEN d ELSE n.val
Max(a, b) == IF a >= b THEN a ELSE b

\* (a variant that keeps the issued tickets in step with the rebuilt slot list)
updateSettingsLive(partial) ==
  LET next == [k \in DOMAIN settings |->
                 IF k \in DOMAIN partial THEN partial[k] ELSE settings[k]]
      sl == buildSlots(next)
      refresh(t) == IF findSlot(sl, t.slotId) = 0 THEN t
                    ELSE [t EXCEPT !.slotStartISO = sl[findSlot(sl, t.slotId)].startISO,
                                   !.slotEndISO = sl[findSlot(sl, t.slotId)].endISO]
  IN  /\ settings' = next
      /\ slots' = sl
      /\ slotId' = reselect(sl, slotId)
      /\ alert' = "none"
      /\ tickets' = [i \in DOMAIN tickets |-> refresh(tickets[i])]
      /\ UNCHANGED <<now, timers, idVars, other>>
      /\ stored' = tickets'
\* updateSettings: setSettings((prev) => ({ ...prev, ...partial })), the render
\* that recomputes the slot list and the effect that reselects the slot
updateSettings(partial) ==
  LET next == [k \in DOMAIN settings |->
                 IF k \in DOMAIN partial THEN partial[k] ELSE settings[k]]
  IN  /\ settings' = next
      /\ slots' = buildSlots(next)
      /\ slotId' = reselect(buildSlots(next), slotId)
      /\ alert' = "none"
      /\ UNCHANGED <<tickets, now, timers, idVars, tabVars>>

\* (a variant whose lower bound is 1)
onSlotMinutesChangeMinOne(raw) == updateSettings([slotMinutes |-> Max(1, orElse(raw, 10))])
\* onChange of the slotMinutes input: Math.max(5, Number(e.target.value) || 10)
onSlotMinutesChange(raw) == updateSettings([slotMinutes |-> Max(5, orElse(raw, 10))])
onSlotCapacityChange(raw) == updateSettings([slotCapacity |-> Max(1, orElse(raw, 1))])
onDateChange(d) == updateSettings([schedule |-> [settings.schedule EXCEPT !.date = d]])
onStartChange(v) == updateSettings([schedule |-> [settings.schedule EXCEPT !.start = v]])
onEndChange(v) == updateSettings([schedule |-> [settings.schedule EXCEPT !.end = v]])

\* ------------------------------------------------------- the creation form
\* (a variant that lets a slot take one ticket more)
isFullStrict(count, capacity) == count > capacity
\* full and past of the slot select: a full or past option is disabled
isFull(count, capacity) == count >= capacity
isPast(slot, t) == slot.endISO < t
\* <select onChange={(e) => setSlotId(e.target.value)}>: an enabled option
onSlotSelect(i) ==
  /\ i \in DOMAIN slots
  /\ ~isFull(capacityForSlot(tickets, slots[i].id), settings.slotCapacity)
  /\ ~isPast(slots[i], now)
  /\ slotId' = slots[i].id
  /\ alert' = "none"
  /\ UNCHANGED <<settings, slots, tickets, now, timers, idVars, tabVars>>

\* (a variant that does not trim)
isBlankUntrimmed(name) == name = <<>>
\* !name.trim()
isBlank(name) == trim(name) = <<>>

\* scheduleReminder(ticket, settings) at instant t: the timers afterwards
scheduleReminder(ticket, s, t) ==
  LET fireAt == ticket.slotStartISO - s.reminderMinutesBefore
      ms == fireAt - t
  IN  IF ms <= 0 THEN timers
      ELSE timers \cup {[id |-> ticket.id, fireAt |-> t + ms]}

existingIds == {tickets[i].id : i \in DOMAIN tickets}

\* createTicket with the form's name and contact fields.  resolves: whether the
\* promise of requestNotifyPermission() resolves, so that scheduleReminder
\* runs; it stays pending while the browser's permission prompt is unanswered.
createTicket(name, contact, resolves) ==
  LET found == findSlot(slots, slotId) IN
  IF found = 0
  THEN /\ alert' = "InvalidSlot"
       /\ UNCHANGED <<settings, slots, tickets, slotId, now, timers, idVars, tabVars>>
  ELSE IF isBlank(name)
  THEN /\ alert' = "BlankName"
       /\ UNCHANGED <<settings, slots, tickets, slotId, now, timers, idVars, tabVars>>
  ELSE IF isFull(capacityForSlot(tickets, slotId), settings.slotCapacity)
  THEN /\ alert' = "SlotFull"
       /\ UNCHANGED <<settings, slots, tickets, slotId, now, timers, idVars, tabVars>>
  ELSE /\ Len(tickets) < MaxTickets
       /\ \E newId \in randTicketId(existingIds) :
            LET t == [id |-> newId,
                      name |-> trim(name),
                      contact |-> trim(contact),
                      slotId |-> slots[found].id,
                      slotStartISO |-> slots[found].startISO,
                      slotEndISO |-> slots[found].endISO,
                      createdAtISO |-> toISOString(now),
                      notified |-> FALSE]
            IN  /\ tickets' = Append(tickets, t)
                /\ timers' = IF resolves THEN scheduleReminder(t, settings, now)
                              ELSE timers
       /\ alert' = "Issued"
       /\ stored' = tickets'
       /\ UNCHANGED <<settings, slots, slotId, now, idVars, other>>

\* TicketCard, the reminder button: scheduleReminder for a listed ticket
onReminderClick(i) ==
  /\ i \in DOMAIN tickets
  /\ timers' = scheduleReminder(tickets[i], settings, now)
  /\ alert' = "ReminderBooked"
  /\ UNCHANGED <<settings, slots, tickets, slotId, now, idVars, tabVars>>

\* The callback scheduleReminder handed to window.setTimeout, once it is due:
\* a Notification when the permission is granted, an alert otherwise
timerCallback(tm, granted) ==
  /\ tm \in timers
  /\ now >= tm.fireAt
  /\ timers' = timers \ {tm}
  /\ alert' = IF granted THEN "Notification" ELSE "ReminderAlert"
  /\ UNCHANGED <<settings, slots, tickets, slotId, now, idVars, tabVars>>

\* Time passes
Tick(t) ==
  /\ t > now
  /\ now' = t
  /\ alert' = "none"
  /\ UNCHANGED <<settings, slots, tickets, slotId, timers, idVars, tabVars>>

\* ------------------------------------------------------------ AdminPanel
\* (a variant that keeps what it should delete)
removeFilterInverted(prev, rid) == SelectSeq(prev, LAMBDA t : t.id = rid)
\* The updater of removeTicket: prev.filter((t) => t.id !== id)
removeFilter(prev, rid) == SelectSeq(prev, LAMBDA t : t.id # rid)
\* removeTicket(id) with the answer to its confirm dialog
\* (a variant that cancels the timers of the ticket it deletes)
removeTicketCancelling(rid, ok) ==
  /\ tickets' = IF ok THEN removeFilter(tickets, rid) ELSE tickets
  /\ timers' = IF ok THEN {tm \in timers : tm.id # rid} ELSE timers
  /\ alert' = IF ok THEN "DeleteConfirmed" ELSE "DeleteCancelled"
  /\ stored' = IF ok THEN tickets' ELSE stored
  /\ UNCHANGED <<settings, slots, slotId, now, idVars, other>>
\* removeTicket(id): confirm(), then setTickets with the filtered list
removeTicket(rid, ok) ==
  /\ tickets' = IF ok THEN removeFilter(tickets, rid) ELSE tickets
  /\ alert' = IF ok THEN "DeleteConfirmed" ELSE "DeleteCancelled"
  /\ stored' = IF ok THEN tickets' ELSE stored
  /\ UNCHANGED <<settings, slots, slotId, now, timers, idVars, other>>

\* The identifiers randTicketId can return for the rows of an import: one
\* choice per data row whose id column is empty, drawn against the registry
\* as it is before the import
genChoices(p) ==
  {g \in [DOMAIN p.rows -> Candidates \cup {<<>>}] :
     \A i \in DOMAIN p.rows : IF rowNeedsId(p, i)
                              THEN g[i] \in randTicketId(existingIds)
                              ELSE g[i] = <<>>}

\* importCSVText from the parsed text on.  With no line it returns; with a
\* data row and an empty slot list slots[0] is undefined and slot.id throws
\* before setTickets; otherwise setTickets(out).
importThrows(p) == ~p.empty /\ p.rows # <<>> /\ slots = <<>>
\* The registry after the import
importResult(p, g) ==
  IF p.empty \/ importThrows(p) THEN tickets ELSE importOut(p, slots, g, now)
importParsed(p) ==
  /\ \E g \in genChoices(p) : tickets' = importResult(p, g)
  /\ alert' = IF importThrows(p) THEN "TypeError" ELSE "none"
  /\ stored' = IF p.empty \/ importThrows(p) THEN stored ELSE tickets'
  /\ UNCHANGED <<settings, slots, slotId, now, timers, idVars, other>>
\* importCSVText(text), called by the file reader's onload
importCSVText(text) == importParsed(parseCSV(text))

\* -------------------------------------------------- randTicketId, stepwise
\* do { id = ... }
randDo(r) ==
  /\ idPc = "do"
  /\ id' = makeId(r)
  /\ idPc' = "while"
  /\ UNCHANGED <<existing, appVars, tabVars>>
\* while (existing.has(id)); return id
randWhile ==
  /\ idPc = "while"
  /\ idPc' = IF whileCondition(id, existing) THEN "do" ELSE "return"
  /\ UNCHANGED <<existing, id, appVars, tabVars>>

\* ---------------------------------------------------------------- inputs
SlotMinutesInputs == {NaN, Num(0), Num(-3), Num(5), Num(10)}
SlotCapacityInputs == {NaN, Num(0), Num(1), Num(2)}
StartInputs == {540, 550}
EndInputs == {540, 560}
\* The name and contact fields at the click on the create button
FormInputs ==
  {<<<<>>, <<>>>>,
   <<<<Blank>>, <<"c">>>>,
   <<<<Blank, Comma, Quote, Blank>>, <<Blank, "c">>>>}

\* Rows of files written elsewhere: a row with no id and no timestamp for the
\* second slot of the first date, and a row with an id the generator can
\* draw, a quote in the name and a slot no modelled schedule has
slotRef(k) == <<Dates[1], "-">> \o padStart3(k)
ExternalRows ==
  {[id |-> <<>>, name |-> <<"b">>, contact |-> <<"c">>,
    slot_label |-> formatHHmm(550) \o <<"-">> \o formatHHmm(560),
    slot_id |-> slotRef(1), created_at |-> <<>>],
   [id |-> makeId(<<0, 0, 0, 0, 0, 0, 0, 0>>), name |-> <<Quote, "b">>, contact |-> <<>>,
    slot_label |-> formatHHmm(600) \o <<"-">> \o formatHHmm(610),
    slot_id |-> slotRef(6), created_at |-> toISOString(530)]}
RowSeqs == UNION {[1..n -> ExternalRows] : n \in 1..MaxTickets}
headerLine == join([i \in DOMAIN headers |-> <<headers[i]>>], <<Comma>>)
\* A file written without quotes
plainCSV(rows) ==
  join(<<headerLine>> \o
       [r \in DOMAIN rows |-> join([i \in DOMAIN headers |-> rows[r][headers[i]]], <<Comma>>)],
       <<LF>>)
ImportFiles ==
  {<<>>, headerLine} \cup {toCSV(rs) : rs \in RowSeqs} \cup {plainCSV(rs) : rs \in RowSeqs}
\* The files as importCSVText parses them
ParsedFiles == {parseCSV(text) : text \in ImportFiles}

\* ------------------------------------------------------ the specifications
\* The registry, the settings and the CSV files at one instant, every
\* permission prompt left unanswered.  Timers and the clock change nothing
\* these operations read but the clock's instant itself.
Next ==
  \/ \E raw \in SlotCapacityInputs : onSlotCapacityChange(raw)
  \/ \E d \in Range(Dates) : onDateChange(d)
  \/ \E v \in EndInputs : onEndChange(v)
  \/ \E i \in DOMAIN slots : onSlotSelect(i)
  \/ \E f \in FormInputs : createTicket(f[1], f[2], FALSE)
  \/ \E i \in DOMAIN tickets, ok \in BOOLEAN : removeTicket(tickets[i].id, ok)
  \/ \E p \in ParsedFiles : importParsed(p)
  \/ importCSVText(exportCSV(tickets))

Spec == Init /\ [][Next]_vars

\* The clock and the reminders under the persisted settings
NextClock ==
  \/ \E i \in DOMAIN slots : onSlotSelect(i)
  \/ \E f \in FormInputs, resolves \in BOOLEAN : createTicket(f[1], f[2], resolves)
  \/ \E i \in DOMAIN tickets : onReminderClick(i)
  \/ \E tm \in timers, granted \in BOOLEAN : timerCallback(tm, granted)
  \/ \E t \in NowValues : Tick(t)
  \/ \E i \in DOMAIN tickets, ok \in BOOLEAN : removeTicket(tickets[i].id, ok)

SpecClock == Init /\ [][NextClock]_vars

\* The clock and the reminders while the page stays loaded: the clock moves on
\* and a timer that is due runs its callback.  The registry can also be
\* emptied by the import of a file that holds the header line only.
HeaderOnlyFile == parseCSV(headerLine)
NextReminders ==
  \/ NextClock
  \/ importParsed(HeaderOnlyFile)
SpecReminders ==
  /\ Init
  /\ [][NextReminders]_vars
  /\ WF_vars(\E t \in NowValues : Tick(t))
  /\ WF_vars(\E tm \in timers, granted \in BOOLEAN : timerCallback(tm, granted))

\* ------------------------------------------------------- the second tab
\* usePersistentState in the second tab: useState(() => loadJSON(key, initial))
\* reads the stored list once, when the page loads; nothing reads it again.
\* The slot list is the first tab's: both tabs loaded the same settings.
otherLoad ==
  /\ other' = [loaded |-> TRUE, tickets |-> stored,
               slotId |-> reselect(slots, <<>>), alert |-> "none"]
  /\ UNCHANGED <<appVars, idVars, stored>>
\* (a variant that reads the stored list on every call)
otherCopyLive == stored
\* The tickets state createTicket reads in the second tab
otherCopy == other.tickets
\* The slot select of the second tab
otherSlotSelect(i) ==
  /\ other.loaded
  /\ i \in DOMAIN slots
  /\ ~isFull(capacityForSlot(otherCopy, slots[i].id), settings.slotCapacity)
  /\ ~isPast(slots[i], now)
  /\ other' = [other EXCEPT !.slotId = slots[i].id, !.alert = "none"]
  /\ UNCHANGED <<appVars, idVars, stored>>
\* createTicket in the second tab, the permission prompt left unanswered;
\* the effect of usePersistentState then saves the tab's list
otherCreateTicket(name, contact) ==
  LET found == findSlot(slots, other.slotId) IN
  /\ other.loaded
  /\ IF found = 0
     THEN /\ other' = [other EXCEPT !.alert = "InvalidSlot"]
          /\ UNCHANGED stored
     ELSE IF isBlank(name)
     THEN /\ other' = [other EXCEPT !.alert = "BlankName"]
          /\ UNCHANGED stored
     ELSE IF isFull(capacityForSlot(otherCopy, other.slotId), settings.slotCapacity)
     THEN /\ other' = [other EXCEPT !.alert = "SlotFull"]
          /\ UNCHANGED stored
     ELSE /\ Len(otherCopy) < MaxTickets
          /\ \E newId \in randTicketId({otherCopy[i].id : i \in DOMAIN otherCopy}) :
               LET t == [id |-> newId,
                         name |-> trim(name),
                         contact |-> trim(contact),
                         slotId |-> slots[found].id,
                         slotStartISO |-> slots[found].startISO,
                         slotEndISO |-> slots[found].endISO,
                         createdAtISO |-> toISOString(now),
                         notified |-> FALSE]
               IN  other' = [other EXCEPT !.tickets = Append(otherCopy, t),
                                          !.alert = "Issued"]
          /\ stored' = other'.tickets
  /\ UNCHANGED <<appVars, idVars>>

\* Two tabs on the same stored list, each issuing tickets
NextTabs ==
  \/ \E i \in DOMAIN slots : onSlotSelect(i)
  \/ \E f \in FormInputs : createTicket(f[1], f[2], FALSE)
  \/ \E i \in DOMAIN tickets, ok \in BOOLEAN : removeTicket(tickets[i].id, ok)
  \/ otherLoad
  \/ \E i \in DOMAIN slots : otherSlotSelect(i)
  \/ \E f \in FormInputs : otherCreateTicket(f[1], f[2])

SpecTabs == Init /\ [][NextTabs]_vars

\* The schedule handlers against issued tickets
NextSnapshot ==
  \/ \E raw \in SlotMinutesInputs : onSlotMinutesChange(raw)
  \/ \E d \in Range(Dates) : onDateChange(d)
  \/ \E v \in StartInputs : onStartChange(v)
  \/ \E v \in EndInputs : onEndChange(v)
  \/ \E i \in DOMAIN slots : onSlotSelect(i)
  \/ \E f \in FormInputs : createTicket(f[1], f[2], FALSE)

SpecSnapshot == Init /\ [][NextSnapshot]_vars

\* buildSlots over a wider range of schedules and slot lengths
WideSlotMinutesInputs == {NaN} \cup {Num(v) : v \in {-3, 0, 5, 7, 10, 15, 30}}
WideStartInputs == {535, 540, 550}
WideEndInputs == {530, 540, 550, 557, 560, 565, 570}
NextSlots ==
  \/ \E raw \in WideSlotMinutesInputs : onSlotMinutesChange(raw)
  \/ \E d \in Range(Dates) : onDateChange(d)
  \/ \E v \in WideStartInputs : onStartChange(v)
  \/ \E v \in WideEndInputs : onEndChange(v)

SpecSlots == Init /\ [][NextSlots]_vars

\* randTicketId called with a used-set: generated identifiers and one that an
\* imported file brought
ImportedId == <<"Z", "Z", "9">>
InitRand ==
  /\ stored = <<>>
  /\ other = NotLoaded
  /\ settings = InitSettings
  /\ slots = buildSlots(InitSettings)
  /\ tickets = <<>>
  /\ slotId = reselect(buildSlots(InitSettings), <<>>)
  /\ now = 530
  /\ timers = {}
  /\ alert = "none"
  /\ existing \in SUBSET (Candidates \cup {ImportedId, makeId(<<1, 0, 0, 0, 0, 0, 0, 0>>)})
  /\ id = <<>>
  /\ idPc = "do"
NextRand ==
  \/ \E r \in RandomDraws : randDo(r)
  \/ randWhile

SpecRand == InitRand /\ [][NextRand]_vars

\* ================================================================ claims
slotIds == {slots[i].id : i \in DOMAIN slots}
\* A name that is empty or holds blanks only
BlankOnly(name) == \A i \in DOMAIN name : name[i] = Blank
\* The selected slot is in the slot list and holds at least slotCapacity tickets
SelectedSlotAtCapacity ==
  /\ slotId \in slotIds
  /\ Cardinality({i \in DOMAIN tickets : tickets[i].slotId = slotId}) >= settings.slotCapacity

\* C1, as claimed: every createTicket on a selected slot at capacity shows the
\* capacity error and leaves the registry as it was.
C1_AtCapacityAlwaysCapacityError ==
  [][\A f \in FormInputs :
       (SelectedSlotAtCapacity /\ createTicket(f[1], f[2], FALSE))
         => (alert' = "SlotFull" /\ tickets' = tickets)]_vars
\* C1, amended: every createTicket on a selected slot at capacity leaves the
\* registry as it was; it shows the capacity error when the name is not blank
\* and the blank-name error when it is.
C1_AtCapacityRejected ==
  [][\A f \in FormInputs :
       (SelectedSlotAtCapacity /\ createTicket(f[1], f[2], FALSE))
         => /\ tickets' = tickets
            /\ alert' = IF BlankOnly(f[1]) THEN "BlankName" ELSE "SlotFull"]_vars
C1_Witness == alert = "SlotFull" /\ SelectedSlotAtCapacity /\ tickets # <<>>

\* C2: createTicket with an empty or blank-only name shows a validation error
\* (the invalid-slot or the blank-name message) whatever the selected slot is,
\* and leaves the registry as it was.
C2_BlankNameRejected ==
  [][\A f \in FormInputs :
       (BlankOnly(f[1]) /\ createTicket(f[1], f[2], FALSE))
         => /\ tickets' = tickets
            /\ alert' = IF slotId \in slotIds THEN "BlankName" ELSE "InvalidSlot"]_vars
C2_Witness == alert = "BlankName" /\ SelectedSlotAtCapacity

\* The schedule of the settings, as instants
scheduleStart == DayStart(settings.schedule.date) + settings.schedule.start
scheduleEnd == DayStart(settings.schedule.date) + settings.schedule.end
\* Every slot lasts slotMinutes, the first starts at the schedule start and
\* each next one starts where the one before it ends
SlotsContiguous ==
  /\ \A i \in DOMAIN slots : slots[i].endISO - slots[i].startISO = settings.slotMinutes
  /\ slots # <<>> => slots[1].startISO = scheduleStart
  /\ \A i \in 1..(Len(slots) - 1) : slots[i + 1].startISO = slots[i].endISO
\* C3, as claimed: with scheduleEnd > scheduleStart the slot list has
\* floor((scheduleEnd - scheduleStart) / slotMinutes) slots of slotMinutes
\* each, contiguous; no slot covers a trailing remainder.
C3_FloorSlots ==
  scheduleEnd > scheduleStart =>
    /\ Len(slots) = (scheduleEnd - scheduleStart) \div settings.slotMinutes
    /\ SlotsContiguous

\* Five uppercase letters followed by three digits
TicketIdShape(v) ==
  /\ Len(v) = 8
  /\ \A i \in 1..5 : v[i] \in Range(letters)
  /\ \A i \in 6..8 : v[i] \in Range(digits)
\* C4: the identifier randTicketId returns has the fixed shape and is not in
\* the used-set; a candidate that is in the used-set is not returned.
C4_FreshShapedId == idPc = "return" => (TicketIdShape(id) /\ id \notin existing)
C4_Witness == idPc = "return" /\ existing \cap Candidates # {}

\* The identifiers, names and slot identifiers of a registry, in order
Keys(tk) == [i \in DOMAIN tk |-> <<tk[i].id, tk[i].name, tk[i].slotId>>]
\* The registries importCSVText can leave when it is given the export of the
\* current registry
RoundTrips ==
  LET p == parseCSV(exportCSV(tickets))
  IN  {importResult(p, g) : g \in genChoices(p)}
\* C5, as claimed: for every reachable registry, exporting and importing back
\* gives the same identifiers, names and slot identifiers in the same order.
C5_RoundTripAlways == \A r \in RoundTrips : Keys(r) = Keys(tickets)
\* C5, amended: the same, for every reachable registry whose tickets all
\* carry a slot identifier of the current slot list.
C5_RoundTripCurrentSlots ==
  (\A i \in DOMAIN tickets : tickets[i].slotId \in slotIds)
    => (RoundTrips # {} /\ \A r \in RoundTrips : Keys(r) = Keys(tickets))
C5_Witness ==
  /\ Len(tickets) >= 2
  /\ \A i \in DOMAIN tickets : tickets[i].slotId \in slotIds
  /\ \E i \in DOMAIN tickets : Quote \in Range(tickets[i].name)
  /\ \E i \in DOMAIN tickets : Comma \in Range(tickets[i].name)

\* after is before without the tickets whose identifier is rid: the tickets
\* with another identifier, each as it was, in the order they had
DeletedById(before, after, rid) ==
  LET keep == {i \in DOMAIN before : before[i].id # rid}
      nth(k) == CHOOSE i \in keep : Cardinality({j \in keep : j < i}) = k - 1
  IN  /\ Len(after) = Cardinality(keep)
      /\ \A k \in DOMAIN after : after[k] = before[nth(k)]
WrittenFiles == {[rows |-> rs, parsed |-> parseCSV(toCSV(rs))] : rs \in RowSeqs}
\* C7, as claimed, for the files toCSV writes: after the import the registry
\* holds one ticket per data row, in row order, each with the name of its row
\* and the slot identifier of its row when the current slot list has it, the
\* first slot's identifier otherwise.
C7_ImportReplaces ==
  [][\A w \in WrittenFiles :
       importParsed(w.parsed)
         => /\ Len(tickets') = Len(w.rows)
            /\ slots # <<>>
            /\ \A i \in DOMAIN w.rows :
                 /\ tickets'[i].name = w.rows[i].name
                 /\ tickets'[i].slotId = IF w.rows[i].slot_id \in slotIds
                                         THEN w.rows[i].slot_id ELSE slots[1].id]_vars

\* C8: a step that changes the settings or the slot list leaves every ticket
\* of the registry as it was.
C8_SnapshotKept ==
  [][(settings' # settings \/ slots' # slots) => tickets' = tickets]_vars
C8_Witness ==
  \E i \in DOMAIN tickets :
    /\ tickets[i].slotId \notin slotIds
    /\ \E j \in DOMAIN tickets :
         /\ tickets[j].slotId \in slotIds
         /\ tickets[j].slotStartISO # slots[findSlot(slots, tickets[j].slotId)].startISO

\* C9, as claimed: once the reminder callback of a ticket has run, the
\* ticket's notified flag is true.
C9_NotifiedAfterReminder ==
  [][\A tm \in timers, granted \in BOOLEAN :
       timerCallback(tm, granted)
         => \A i \in DOMAIN tickets' :
              tickets'[i].id = tm.id => tickets'[i].notified]_vars

\* C10, as claimed: createTicket issues no ticket for a slot that has ended
\* before the instant of the creation.
C10_NoTicketForPastSlot ==
  alert = "Issued" => tickets[Len(tickets)].slotEndISO >= now

\* C11, as claimed: in every reachable state, for every slot id, the registry
\* holds at most slotCapacity tickets with that slotId.
C11_CapacityRespected ==
  \A i \in DOMAIN tickets :
    Cardinality({j \in DOMAIN tickets : tickets[j].slotId = tickets[i].slotId})
      <= settings.slotCapacity

\* C12, as claimed: in every reachable state no two tickets of the registry
\* share an id.
C12_IdsDistinct ==
  \A i, j \in DOMAIN tickets : tickets[i].id = tickets[j].id => i = j

\* C15: in every settings state reachable from the defaults through the
\* settings inputs (0, negative and non-numeric slot lengths included),
\* slotMinutes is at least 5, and the loop of buildSlots has ended after at
\* most one iteration per started slotMinutes of the schedule: the cursor of
\* the last slot is before the schedule end, and no slot exists when the end
\* is not after the start.
C15_SlotMinutesAtLeastFive ==
  /\ settings.slotMinutes >= 5
  /\ scheduleEnd <= scheduleStart => slots = <<>>
  /\ Len(slots) * settings.slotMinutes < (scheduleEnd - scheduleStart) + settings.slotMinutes
       \/ slots = <<>>
  /\ \A i \in DOMAIN slots : slots[i].startISO < scheduleEnd
C15_Witness ==
  /\ settings.slotMinutes = 5
  /\ Len(slots) >= 2
  /\ (scheduleEnd - scheduleStart) % settings.slotMinutes # 0

\* The timers scheduleReminder can register under the default settings
TimerUniverse ==
  {[id |-> c, fireAt |-> sl.startISO - InitSettings.reminderMinutesBefore] :
     c \in Candidates, sl \in Range(buildSlots(InitSettings))}
\* C14: a registered timer leaves the set of pending timers only by running
\* its callback when it is due (no removal of a ticket and no import takes it
\* away), and while the page stays loaded every registered timer does run its
\* callback, also when its ticket is no longer in the registry.
C14_RemindersNotCancelled ==
  /\ [][\A tm \in timers :
          tm \notin timers'
            => /\ now >= tm.fireAt
               /\ alert' \in {"Notification", "ReminderAlert"}
               /\ tickets' = tickets]_vars
  /\ \A tm \in TimerUniverse : (tm \in timers) ~> (tm \notin timers)
\* A callback has just run and the registry holds no ticket with its id left
C14_Witness ==
  /\ alert \in {"Notification", "ReminderAlert"}
  /\ tickets = <<>>
  /\ now > 530

\* The tickets of a list but its last
ButLast(tk) == SubSeq(tk, 1, Len(tk) - 1)
\* The number of tickets of a list for a slot
CountFor(tk, sid) == Cardinality({i \in DOMAIN tk : tk[i].slotId = sid})
\* C13: the two tabs keep independent copies.  A step that changes the list
\* of one tab leaves the list of the other as it was; createTicket in the
\* second tab is decided on that tab's copy alone (with a resolved slot, a
\* name that is not blank and room in its own copy it issues the ticket,
\* whatever the stored list and the first tab hold, and it issues none
\* without room in its own copy); each issue saves the issuing tab's list
\* over the stored one.
C13_TabsIndependent ==
  [][/\ tickets' # tickets => (other' = other /\ stored' = tickets')
     /\ other'.tickets # other.tickets =>
          (tickets' = tickets /\ (other.loaded => stored' = other'.tickets))
     /\ \A f \in FormInputs :
          (/\ otherCreateTicket(f[1], f[2])
           /\ other.slotId \in slotIds
           /\ ~BlankOnly(f[1]))
            => (other'.alert = "Issued"
                  <=> CountFor(other.tickets, other.slotId) < settings.slotCapacity)]_vars
\* Both tabs hold the same list but for the ticket each has just issued, both
\* for the slot that had one place left: one ticket more than slotCapacity was
\* issued for it
C13_Witness ==
  /\ other.loaded
  /\ alert = "Issued"
  /\ other.alert = "Issued"
  /\ tickets # <<>> /\ other.tickets # <<>>
  /\ ButLast(tickets) = ButLast(other.tickets)
  /\ tickets[Len(tickets)] # other.tickets[Len(other.tickets)]
  /\ tickets[Len(tickets)].slotId = other.tickets[Len(other.tickets)].slotId
  /\ CountFor(ButLast(tickets), tickets[Len(tickets)].slotId) + 1 = settings.slotCapacity
  /\ CountFor(tickets, tickets[Len(tickets)].slotId)
       + CountFor(<<other.tickets[Len(other.tickets)]>>, tickets[Len(tickets)].slotId)
       > settings.slotCapacity

====
